---- MODULE Spec2Model ----
(***************************************************************************)
(* Membership dues reconciliation, balances and statute-barred debt of     *)
(* byro (src/byro/members/models.py).                                      *)
(*                                                                         *)
(* Dates are the integers yyyymmdd, so that date order is integer order.   *)
(* NoDate (0) stands for None.  Amounts are integers (whole currency       *)
(* units); Decimal arithmetic on them is exact, as integer arithmetic is.  *)
(***************************************************************************)
EXTENDS Integers, Sequences, FiniteSets, TLC

VARIABLES memberships, txs, balances, now, accounting_start, last, running

vars == <<memberships, txs, balances, now, accounting_start, last, running>>

(***************************************************************************)
(* Bounds of the model.                                                    *)
(***************************************************************************)
MaxTx == 3
MaxMemberships == 2
MaxAdjust == 1
MaxBalances == 2
MaxTxOrder == 4

NoDate == 0
NoTx == 0

\* the members; dues are reconciled for the members of Billed
Members == {"A", "B"}
Billed == {"A"}

\* the processes that run update_liabilites at the same time
Procs == {"p1", "p2"}

\* the values the operations are given
Starts == {20230131}
Ends == {NoDate, 20230131}
Amounts == {0, 10, 20}
Froms == {NoDate, 20230215}
Nows == <<20230210, 20230310>>
AdjustAmounts == {0, 10, -10}
AdjustDates == {20230301}
Cutoffs == {NoDate, 20230131}
BalanceStarts == {NoDate, 20230205}
BalanceDates == {20230101, 20230201, 20230301}
LiabilityIntervals == {12, 36}
FutureLimits == {0, 13, 24}

\* memberships of which one starts after the dues of the other
OrderStarts == {20230131, 20230301}
OrderAmounts == {10, 20}

\* transactions booked by hand that carry the fees of two members
SharedDates == {20230131}
SharedAmounts == {10}

\* membership rows the database admits although they make no sense: an end
\* before the start, a negative fee
BadEnds == {NoDate, 20230115, 20230131}
SignedAmounts == {-10, 10}

\* the memberships and dates Membership.get_dues is called with
DueStarts == {20230101, 20230110, 20230131}
DueEnds == {NoDate, 20230105, 20230430}
DueAmounts == {30}
DueNows == {20230210, 20230430, 20230801}
DueFroms == {NoDate, 20230215}

(***************************************************************************)
(* Calendar: datetime.date and dateutil.relativedelta.                     *)
(***************************************************************************)
Year(d) == d \div 10000
Month(d) == (d \div 100) % 100
Day(d) == d % 100
MkDate(y, m, d) == y * 10000 + m * 100 + d

IsLeap(y) == (y % 4 = 0 /\ y % 100 # 0) \/ y % 400 = 0

DaysInMonth(y, m) ==
    IF m = 2 THEN (IF IsLeap(y) THEN 29 ELSE 28)
    ELSE IF m \in {4, 6, 9, 11} THEN 30 ELSE 31

Min(a, b) == IF a <= b THEN a ELSE b
Max(a, b) == IF a >= b THEN a ELSE b

\* date + relativedelta(months=k): the month is moved, then the day is
\* clamped to the length of the month reached.
AddMonths(d, k) ==
    LET total == Year(d) * 12 + (Month(d) - 1) + k
        y == total \div 12
        m == (total % 12) + 1
    IN  MkDate(y, m, Min(Day(d), DaysInMonth(y, m)))

\* date + relativedelta(years=k)
AddYears(d, k) == AddMonths(d, 12 * k)

\* (_now + relativedelta(day=1, months=1, days=-1)).date(): last day of the
\* month of _now.
LastDayOfMonth(d) == MkDate(Year(d), Month(d), DaysInMonth(Year(d), Month(d)))

\* _now.replace(day=n): raises ValueError when the month has no day n.
ReplaceDayValid(d, n) == n <= DaysInMonth(Year(d), Month(d))
ReplaceDay(d, n) == MkDate(Year(d), Month(d), n)

FeeIntervals == {1, 3, 6, 12}
Intervals == {1}

(***************************************************************************)
(* Membership.get_dues                                                     *)
(***************************************************************************)
\* the start left at membership.start whatever _from is
RangeStartIgnoringFrom(ms, from) == ms.start

RangeStart(ms, from) ==
    IF from # NoDate /\ ms.start < from THEN from ELSE ms.start

RangeEnd(ms, n, from) ==
    IF ms.end # NoDate THEN ms.end
    ELSE IF ReplaceDayValid(n, Day(RangeStart(ms, from)))
         THEN ReplaceDay(n, Day(RangeStart(ms, from)))
         ELSE LastDayOfMonth(n)

\* the loop with `while date < end`
RECURSIVE DuesLoopExclusive(_, _, _, _)
DuesLoopExclusive(date, end, amount, interval) ==
    IF date < end
    THEN {<<date, amount>>}
             \cup DuesLoopExclusive(AddMonths(date, interval), end, amount, interval)
    ELSE {}

RECURSIVE DuesLoop(_, _, _, _)
DuesLoop(date, end, amount, interval) ==
    IF date <= end
    THEN {<<date, amount>>} \cup DuesLoop(AddMonths(date, interval), end, amount, interval)
    ELSE {}

\* returns (start, end), dues
get_dues(ms, n, from) ==
    LET start == RangeStart(ms, from)
        end == RangeEnd(ms, n, from)
    IN  [range |-> <<start, end>>,
         dues |-> DuesLoop(start, end, ms.amount, ms.interval)]

(***************************************************************************)
(* The ledger (byro.bookkeeping): a sequence of transactions, a            *)
(* transaction's id being its position.  A booking is one side of a        *)
(* transaction: t.credit(account, amount, member) or t.debit(...).         *)
(***************************************************************************)
Booking(side, account, amount, member) ==
    [side |-> side, account |-> account, amount |-> amount, member |-> member]

NoMember == "none"

Transaction(date, memo, bookings) ==
    [value_date |-> date, memo |-> memo, reversed_by |-> NoTx, bookings |-> bookings]

Opposite(side) == IF side = "credit" THEN "debit" ELSE "credit"

\* Transaction.reverse: a new transaction with the same value date and the
\* mirrored bookings is appended, and the original is linked to it.
Reverse(ledger, i, memo) ==
    LET t == ledger[i]
        r == Transaction(t.value_date, memo,
                 {Booking(Opposite(b.side), b.account, b.amount, b.member) : b \in t.bookings})
    IN  Append([ledger EXCEPT ![i].reversed_by = Len(ledger) + 1], r)

\* Booking.objects: the bookings of the ledger, each with its transaction
BookingRefs(ledger) ==
    UNION {{<<i, b>> : b \in ledger[i].bookings} : i \in 1..Len(ledger)}

RECURSIVE SumAmounts(_)
SumAmounts(refs) ==
    IF refs = {} THEN 0
    ELSE LET r == CHOOSE x \in refs : TRUE
         IN  r[2].amount + SumAmounts(refs \ {r})

(***************************************************************************)
(* sorted() of a set of (date, amount) tuples                              *)
(***************************************************************************)
TupleLess(a, b) == a[1] < b[1] \/ (a[1] = b[1] /\ a[2] < b[2])

RECURSIVE Sorted(_)
Sorted(S) ==
    IF S = {} THEN <<>>
    ELSE LET lo == CHOOSE x \in S : \A y \in S : x = y \/ TupleLess(x, y)
         IN  <<lo>> \o Sorted(S \ {lo})

RECURSIVE Orders(_)
Orders(S) ==
    IF S = {} THEN {<<>>}
    ELSE UNION {{<<x>> \o o : o \in Orders(S \ {x})} : x \in S}

(***************************************************************************)
(* Member.update_liabilites                                                *)
(***************************************************************************)
\* Step 1: memberships with a zero amount are skipped
BilledMemberships(mss, m) == {ms \in mss : ms.member = m /\ ms.amount # 0}

ExpectedDues(mss, m, n, from) ==
    UNION {get_dues(ms, n, from).dues : ms \in BilledMemberships(mss, m)}

MembershipRanges(mss, m, n, from) ==
    {get_dues(ms, n, from).range : ms \in BilledMemberships(mss, m)}

\* date_range_q
InRanges(date, ranges) == \E r \in ranges : date >= r[1] /\ date <= r[2]

\* the filter without `transaction__reversed_by__isnull=True`
DueBookingsReversedToo(ledger, m, from) ==
    {r \in BookingRefs(ledger) :
        /\ r[2].member = m
        /\ r[2].side = "credit" /\ r[2].account = "fees"
        /\ (from # NoDate => ledger[r[1]].value_date >= from)}

\* the filter shared by step 2 and step 6: active due bookings of the member
ActiveDueBookings(ledger, m, from) ==
    {r \in BookingRefs(ledger) :
        /\ r[2].member = m
        /\ r[2].side = "credit" /\ r[2].account = "fees"
        /\ ledger[r[1]].reversed_by = NoTx
        /\ (from # NoDate => ledger[r[1]].value_date >= from)}

\* Step 2: dues_qs
DuesQs(ledger, m, from, ranges) ==
    {r \in ActiveDueBookings(ledger, m, from) :
        ranges # {} => InRanges(ledger[r[1]].value_date, ranges)}

DueKey(ledger, r) == <<ledger[r[1]].value_date, r[2].amount>>

\* dues_in_db: a dict, the booking iterated last wins a key
DuesInDbKeys(ledger, qs) == {DueKey(ledger, r) : r \in qs}

DuesInDb(ledger, qs, key) ==
    CHOOSE r \in qs : /\ DueKey(ledger, r) = key
                      /\ \A q \in qs : DueKey(ledger, q) = key => q[1] <= r[1]

\* the stray query without `transaction__reversed_by__isnull=True`
StrayLiabilitiesQsReversedToo(ledger, m, from, ranges) ==
    {r \in DueBookingsReversedToo(ledger, m, from) :
        ranges # {} => ~InRanges(ledger[r[1]].value_date, ranges)}

\* Step 6: stray_liabilities_qs
StrayLiabilitiesQs(ledger, m, from, ranges) ==
    {r \in ActiveDueBookings(ledger, m, from) :
        ranges # {} => ~InRanges(ledger[r[1]].value_date, ranges)}

MemoAmountChanged == "Due amount canceled because of change in membership amount"
MemoStray == "Due amount outside of membership canceled"
MemoDue == "Membership due"

\* reversing the transaction of booking r
ReverseWrite(r, ledger, memo) ==
    [kind |-> "reverse", tx |-> r[1], date |-> ledger[r[1]].value_date,
     amount |-> r[2].amount, memo |-> memo]

CreateWrite(due) ==
    [kind |-> "create", tx |-> NoTx, date |-> due[1], amount |-> due[2], memo |-> MemoDue]

\* step 3 comparing the due dates only, not the amounts
WrongDuesInDbByDate(ledger, mss, m, n, from) ==
    {k \in DuesInDbKeys(ledger, DuesQs(ledger, m, from, MembershipRanges(mss, m, n, from))) :
        \A e \in ExpectedDues(mss, m, n, from) : e[1] # k[1]}

\* step 3 taking every expected due for missing
MissingDuesAll(ledger, mss, m, n, from) == ExpectedDues(mss, m, n, from)

\* Step 3
WrongDuesInDb(ledger, mss, m, n, from) ==
    DuesInDbKeys(ledger, DuesQs(ledger, m, from, MembershipRanges(mss, m, n, from)))
        \ ExpectedDues(mss, m, n, from)

MissingDues(ledger, mss, m, n, from) ==
    ExpectedDues(mss, m, n, from)
        \ DuesInDbKeys(ledger, DuesQs(ledger, m, from, MembershipRanges(mss, m, n, from)))

\* Step 4, the reversals it issues
Step4Writes(ledger, mss, m, n, from) ==
    LET qs == DuesQs(ledger, m, from, MembershipRanges(mss, m, n, from))
        wrong == Sorted(WrongDuesInDb(ledger, mss, m, n, from))
    IN  [k \in 1..Len(wrong) |->
            ReverseWrite(DuesInDb(ledger, qs, wrong[k]), ledger, MemoAmountChanged)]

\* Step 5, the transactions it creates
Step5Writes(ledger, mss, m, n, from) ==
    LET missing == Sorted(MissingDues(ledger, mss, m, n, from))
    IN  [k \in 1..Len(missing) |-> CreateWrite(missing[k])]

ApplyWrite(ledger, m, w) ==
    IF w.kind = "reverse"
    THEN Reverse(ledger, w.tx, w.memo)
    ELSE Append(ledger,
             Transaction(w.date, w.memo,
                 {Booking("credit", "fees", w.amount, m),
                  Booking("debit", "fees_receivable", w.amount, m)}))

\* the ledger after the first k writes of ws
RECURSIVE ApplyWrites(_, _, _, _)
ApplyWrites(ledger, m, ws, k) ==
    IF k = 0 THEN ledger
    ELSE ApplyWrite(ApplyWrites(ledger, m, ws, k - 1), m, ws[k])

\* Step 6, the reversals it issues, the stray bookings iterated in `order`
Step6Writes(ledger, order) ==
    [k \in 1..Len(order) |-> ReverseWrite(order[k], ledger, MemoStray)]

\* Steps 4 and 5 together
Step45Writes(ledger, mss, m, n, from) ==
    Step4Writes(ledger, mss, m, n, from) \o Step5Writes(ledger, mss, m, n, from)

\* the stray bookings step 6 finds, after steps 4 and 5 have written
StraysAfterSteps(ledger, mss, m, n, from) ==
    LET w45 == Step45Writes(ledger, mss, m, n, from)
    IN  StrayLiabilitiesQs(ApplyWrites(ledger, m, w45, Len(w45)), m, from,
                           MembershipRanges(mss, m, n, from))

\* every write of one run, in the order issued
update_liabilites(ledger, mss, m, n, from, order) ==
    LET w45 == Step45Writes(ledger, mss, m, n, from)
    IN  w45 \o Step6Writes(ApplyWrites(ledger, m, w45, Len(w45)), order)

\* without @transaction.atomic the writes made before the exception stay
NotAtomic(before, after, raised) == after

\* @transaction.atomic: the writes are kept when the body returns and are
\* rolled back when it raises.
TransactionAtomic(before, after, raised) == IF raised THEN before ELSE after

(***************************************************************************)
(* Member._calc_balance, Member.create_balance, Member.statute_barred_debt *)
(***************************************************************************)
\* `liability_cutoff or _now`
OrNow(cutoff, n) == IF cutoff # NoDate THEN cutoff ELSE n

\* the bookings of active transactions only
FeesReceivableActive(ledger, m, side, cutoff, start) ==
    {r \in BookingRefs(ledger) :
        /\ r[2].member = m
        /\ r[2].side = side /\ r[2].account = "fees_receivable"
        /\ ledger[r[1]].reversed_by = NoTx
        /\ ledger[r[1]].value_date <= cutoff
        /\ (start # NoDate => ledger[r[1]].value_date >= start)}

FeesReceivable(ledger, m, side, cutoff, start) ==
    {r \in BookingRefs(ledger) :
        /\ r[2].member = m
        /\ r[2].side = side /\ r[2].account = "fees_receivable"
        /\ ledger[r[1]].value_date <= cutoff
        /\ (start # NoDate => ledger[r[1]].value_date >= start)}

calc_balance(ledger, m, n, liability_cutoff, asset_cutoff, liability_start, asset_start) ==
    LET debits == FeesReceivable(ledger, m, "debit", OrNow(liability_cutoff, n), liability_start)
        credits == FeesReceivable(ledger, m, "credit", OrNow(asset_cutoff, n), asset_start)
        liability == SumAmounts(debits)
        asset == SumAmounts(credits)
    IN  asset - liability

\* the overlap test of create_balance
OverlapsExisting(bals, m, start, end) ==
    \E b \in bals :
        /\ b.member = m
        /\ \/ (b.start <= start /\ b.end >= start)
           \/ (b.start <= end /\ b.end >= end)

MemberBalance(m, start, end, amount) ==
    [member |-> m, start |-> start, end |-> end, amount |-> amount]

\* the MemberBalance rows after create_balance has returned
create_balance(bals, ledger, m, n, start, end, commit, create_if_zero) ==
    LET amount == calc_balance(ledger, m, n, end, end, start, start)
    IN  IF amount = 0 /\ ~create_if_zero THEN bals
        ELSE IF commit THEN bals \cup {MemberBalance(m, start, end, amount)}
        ELSE bals

\* the future limit subtracted from the date instead of from the interval
LastUnenforceableDateEarlier(n, liability_interval, future_limit) ==
    LET limit == liability_interval + future_limit
    IN  AddYears(AddMonths(MkDate(Year(n), 12, 31), -limit), -1)

\* last_unenforceable_date
LastUnenforceableDate(n, liability_interval, future_limit) ==
    LET limit == liability_interval - future_limit
    IN  AddYears(AddMonths(MkDate(Year(n), 12, 31), -limit), -1)

\* without the floor at zero
statute_barred_debt_unfloored(ledger, m, n, liability_interval, future_limit) ==
    -calc_balance(ledger, m, n,
         LastUnenforceableDate(n, liability_interval, future_limit),
         NoDate, NoDate, NoDate)

statute_barred_debt(ledger, m, n, liability_interval, future_limit) ==
    Max(0, -calc_balance(ledger, m, n,
                LastUnenforceableDate(n, liability_interval, future_limit),
                NoDate, NoDate, NoDate))

(***************************************************************************)
(* The state machine                                                       *)
(***************************************************************************)
Membership(m, start, end, amount, interval) ==
    [member |-> m, start |-> start, end |-> end, amount |-> amount, interval |-> interval]

\* what the last operation was, what it was given and what it returned
Op(op, m, raised, writes, applied, args, result) ==
    [op |-> op, member |-> m, raised |-> raised, writes |-> writes,
     applied |-> applied, args |-> args, result |-> result]

NoOp == Op("none", NoMember, FALSE, <<>>, 0, <<>>, 0)

\* a process between two calls, and a process inside update_liabilites:
\* the writes it has made, which only itself sees until it commits
Idle == [phase |-> "idle", member |-> NoMember, writes |-> <<>>]
Inside(phase, m, ws) == [phase |-> phase, member |-> m, writes |-> ws]

Init ==
    /\ running = [p \in Procs |-> Idle]
    /\ memberships = {}
    /\ txs = <<>>
    /\ balances = {}
    /\ now = Nows[1]
    /\ accounting_start = NoDate
    /\ last = NoOp

AddMembership(m, start, end, amount, interval) ==
    /\ Cardinality(memberships) < MaxMemberships
    /\ Membership(m, start, end, amount, interval) \notin memberships
    /\ memberships' = memberships \cup {Membership(m, start, end, amount, interval)}
    /\ last' = NoOp
    /\ UNCHANGED <<txs, balances, now, accounting_start, running>>

ChangeMembership(ms, end, amount) ==
    /\ ms \in memberships
    /\ [ms EXCEPT !.end = end, !.amount = amount] \notin memberships
    /\ memberships' = (memberships \ {ms}) \cup {[ms EXCEPT !.end = end, !.amount = amount]}
    /\ last' = IF end = ms.end /\ ms.amount # 0 /\ amount # 0
               THEN Op("change_amount", ms.member, FALSE, <<>>, 0,
                       <<ms.start, ms.end, ms.interval, ms.amount, amount>>, 0)
               ELSE NoOp
    /\ UNCHANGED <<txs, balances, now, accounting_start, running>>

DeleteMembership(ms) ==
    /\ ms \in memberships
    /\ memberships' = memberships \ {ms}
    /\ last' = NoOp
    /\ UNCHANGED <<txs, balances, now, accounting_start, running>>

SetAccountingStart(from) ==
    /\ from # accounting_start
    /\ accounting_start' = from
    /\ last' = NoOp
    /\ UNCHANGED <<memberships, txs, balances, now, running>>

Tick ==
    /\ \E k \in 1..(Len(Nows) - 1) : now = Nows[k] /\ now' = Nows[k + 1]
    /\ last' = NoOp
    /\ UNCHANGED <<memberships, txs, balances, accounting_start, running>>

\* One run of update_liabilites.  `applied` writes have been made when the
\* run ends: all of them when it returns, fewer when a write raises.
UpdateLiabilitesWithin(m, cap) ==
    \E order \in Orders(StraysAfterSteps(txs, memberships, m, now, accounting_start)) :
        LET ws == update_liabilites(txs, memberships, m, now, accounting_start, order)
        IN  /\ Len(txs) + Len(ws) <= cap
            /\ \E applied \in 0..Len(ws), raised \in BOOLEAN :
                  /\ raised \/ applied = Len(ws)
                  /\ txs' = TransactionAtomic(txs, ApplyWrites(txs, m, ws, applied), raised)
                  /\ last' = Op("update_liabilites", m, raised, ws, applied, <<>>, 0)
            /\ UNCHANGED <<memberships, balances, now, accounting_start, running>>

UpdateLiabilites(m) == UpdateLiabilitesWithin(m, MaxTx)

IsAdjust(t) == t.memo = "adjust"

AdjustCount(ledger) == Cardinality({i \in 1..Len(ledger) : IsAdjust(ledger[i])})

\* the transaction adjust_balance creates
adjust_balance(m, amount, from_, to_, value_datetime) ==
    LET amt == IF amount < 0 THEN -amount ELSE amount
        f == IF amount < 0 THEN to_ ELSE from_
        t == IF amount < 0 THEN from_ ELSE to_
        from_member == IF f = "fees_receivable" THEN m ELSE NoMember
        to_member == IF t = "fees_receivable" THEN m ELSE NoMember
    IN  Transaction(value_datetime, "adjust",
            {Booking("debit", t, amt, to_member),
             Booking("credit", f, amt, from_member)})

AdjustBalance(m, amount, from_, to_, value_datetime) ==
    /\ Len(txs) < MaxTx
    /\ AdjustCount(txs) < MaxAdjust
    /\ txs' = IF amount = 0 THEN txs
              ELSE Append(txs, adjust_balance(m, amount, from_, to_, value_datetime))
    /\ last' = Op("adjust_balance", m, FALSE, <<>>, 0, <<amount, value_datetime>>,
                  IF amount = 0 THEN 0 ELSE 1)
    /\ UNCHANGED <<memberships, balances, now, accounting_start, running>>

CalcBalance(m, liability_cutoff, asset_cutoff, liability_start, asset_start) ==
    /\ last' = Op("calc_balance", m, FALSE, <<>>, 0,
                  <<liability_cutoff, asset_cutoff, liability_start, asset_start>>,
                  calc_balance(txs, m, now, liability_cutoff, asset_cutoff,
                               liability_start, asset_start))
    /\ UNCHANGED <<memberships, txs, balances, now, accounting_start, running>>

CreateBalance(m, start, end, commit, create_if_zero) ==
    /\ start <= end
    /\ Cardinality(balances) < MaxBalances
    /\ balances' = IF OverlapsExisting(balances, m, start, end) THEN balances
                   ELSE create_balance(balances, txs, m, now, start, end, commit, create_if_zero)
    /\ last' = Op("create_balance", m, OverlapsExisting(balances, m, start, end),
                  <<>>, 0, <<start, end>>, 0)
    /\ UNCHANGED <<memberships, txs, now, accounting_start, running>>

StatuteBarredDebt(m, liability_interval, future_limit) ==
    /\ last' = Op("statute_barred_debt", m, FALSE, <<>>, 0,
                  <<liability_interval, future_limit,
                    LastUnenforceableDate(now, liability_interval, future_limit)>>,
                  statute_barred_debt(txs, m, now, liability_interval, future_limit))
    /\ UNCHANGED <<memberships, txs, balances, now, accounting_start, running>>

\* update_liabilites run by process p next to other processes.  The
\* transaction of p reads what is committed when a query is made, and its
\* own writes; nothing locks the member or the ledger.
\* Steps 1 to 5: one query of the ledger, then the writes.
Begin(p, m) ==
    /\ running[p].phase = "idle"
    /\ running' = [running EXCEPT ![p] =
           Inside("written", m, Step45Writes(txs, memberships, m, now, accounting_start))]
    /\ last' = NoOp
    /\ UNCHANGED <<memberships, txs, balances, now, accounting_start>>

\* Step 6: the query for strays, then their reversals.
Strays(p) ==
    /\ running[p].phase = "written"
    /\ LET m == running[p].member
           w45 == running[p].writes
           seen == ApplyWrites(txs, m, w45, Len(w45))
       IN  \E order \in Orders(StrayLiabilitiesQs(seen, m, accounting_start,
                        MembershipRanges(memberships, m, now, accounting_start))) :
               running' = [running EXCEPT ![p] =
                   Inside("done", m, w45 \o Step6Writes(seen, order))]
    /\ last' = NoOp
    /\ UNCHANGED <<memberships, txs, balances, now, accounting_start>>

\* The body has returned: the transaction commits.
Commit(p) ==
    /\ running[p].phase = "done"
    /\ Len(txs) + Len(running[p].writes) <= MaxTx
    /\ txs' = TransactionAtomic(txs,
                 ApplyWrites(txs, running[p].member, running[p].writes,
                             Len(running[p].writes)), FALSE)
    /\ running' = [running EXCEPT ![p] = Idle]
    /\ last' = Op("update_liabilites", running[p].member, FALSE, running[p].writes,
                  Len(running[p].writes), <<>>, 0)
    /\ UNCHANGED <<memberships, balances, now, accounting_start>>

\* The body has raised: the transaction is rolled back.
Rollback(p) ==
    /\ running[p].phase \in {"written", "done"}
    /\ txs' = TransactionAtomic(txs,
                 ApplyWrites(txs, running[p].member, running[p].writes,
                             Len(running[p].writes)), TRUE)
    /\ running' = [running EXCEPT ![p] = Idle]
    /\ last' = Op("update_liabilites", running[p].member, TRUE, running[p].writes,
                  Len(running[p].writes), <<>>, 0)
    /\ UNCHANGED <<memberships, balances, now, accounting_start>>

\* A transaction booked through the ledger, outside update_liabilites, that
\* carries the fee of each member of ms
PostShared(ms, date, amount) ==
    /\ Len(txs) < MaxTx
    /\ txs' = Append(txs,
                 Transaction(date, "shared",
                     {Booking("credit", "fees", amount, m) : m \in ms}
                         \cup {Booking("debit", "fees_receivable", amount, m) : m \in ms}))
    /\ last' = Op("post", NoMember, FALSE, <<>>, 0, <<date, amount>>, 0)
    /\ UNCHANGED <<memberships, balances, now, accounting_start, running>>

\* One call of Membership.get_dues on a membership object
GetDues(ms, n, from) ==
    /\ last' = Op("get_dues", ms.member, FALSE, <<>>, 0,
                  <<ms.start, ms.end, ms.amount, ms.interval, n, from>>,
                  get_dues(ms, n, from))
    /\ UNCHANGED <<memberships, txs, balances, now, accounting_start, running>>

\* Reconciliation of dues
Next ==
    \/ \E m \in Billed, s \in Starts, e \in Ends, a \in Amounts, i \in Intervals :
           AddMembership(m, s, e, a, i)
    \/ \E ms \in memberships, e \in Ends, a \in Amounts : ChangeMembership(ms, e, a)
    \/ \E ms \in memberships : DeleteMembership(ms)
    \/ \E f \in Froms : SetAccountingStart(f)
    \/ Tick
    \/ \E m \in Billed : UpdateLiabilites(m)

Spec == Init /\ [][Next]_vars

\* The ledger of dues, reversals and adjustments the balances are taken over
NextLedger ==
    \/ \E m \in Billed, s \in Starts, a \in Amounts \ {0}, i \in Intervals :
           AddMembership(m, s, s, a, i)
    \/ \E ms \in memberships : DeleteMembership(ms)
    \/ \E m \in Billed : UpdateLiabilites(m)
    \/ \E m \in Members, a \in AdjustAmounts, d \in AdjustDates :
           AdjustBalance(m, a, "fees_receivable", "bank", d)
    \/ Tick

\* Balances
NextBalance ==
    \/ NextLedger
    \/ \E m \in Members, c \in Cutoffs, ls \in BalanceStarts : CalcBalance(m, c, c, ls, ls)
    \/ \E m \in Members, c \in Cutoffs \ {NoDate} : CalcBalance(m, c, NoDate, NoDate, NoDate)

SpecBalance == Init /\ [][NextBalance]_vars

\* Statute-barred debt
NextStatute ==
    \/ NextLedger
    \/ \E m \in Members, li \in LiabilityIntervals, fl \in FutureLimits :
           StatuteBarredDebt(m, li, fl)

SpecStatute == Init /\ [][NextStatute]_vars

\* Balance snapshots
NextSnapshot ==
    \/ \E m \in Members, a \in AdjustAmounts, d \in AdjustDates :
           AdjustBalance(m, a, "fees_receivable", "bank", d)
    \/ \E m \in Members, s \in BalanceDates, e \in BalanceDates,
          c \in BOOLEAN, z \in BOOLEAN : CreateBalance(m, s, e, c, z)

SpecSnapshot == Init /\ [][NextSnapshot]_vars

\* Reconciliation of dues over memberships with an end before the start or
\* a negative fee
NextInput ==
    \/ \E m \in Billed, s \in Starts, e \in BadEnds, a \in SignedAmounts, i \in Intervals :
           AddMembership(m, s, e, a, i)
    \/ \E ms \in memberships : DeleteMembership(ms)
    \/ Tick
    \/ \E m \in Billed : UpdateLiabilites(m)

SpecInput == Init /\ [][NextInput]_vars

\* Reconciliation of dues with several strays at once
NextOrder ==
    \/ \E m \in Billed, s \in OrderStarts, a \in OrderAmounts, i \in Intervals :
           AddMembership(m, s, NoDate, a, i)
    \/ \E ms \in memberships : DeleteMembership(ms)
    \/ \E m \in Billed : UpdateLiabilitesWithin(m, MaxTxOrder)

SpecOrder == Init /\ [][NextOrder]_vars

\* Reconciliation of the dues of two members
NextFrame ==
    \/ \E m \in Members, s \in Starts, a \in Amounts \ {0}, i \in Intervals :
           AddMembership(m, s, s, a, i)
    \/ \E ms \in memberships : DeleteMembership(ms)
    \/ \E m \in Members : UpdateLiabilites(m)
    \/ \E d \in SharedDates, a \in SharedAmounts : PostShared(Members, d, a)

SpecFrame == Init /\ [][NextFrame]_vars

\* update_liabilites of one member run by two processes, and balance reads
NextConcurrent ==
    \/ \E m \in Billed, s \in Starts, a \in Amounts \ {0}, i \in Intervals :
           AddMembership(m, s, s, a, i)
    \/ \E ms \in memberships : DeleteMembership(ms)
    \/ \E p \in Procs, m \in Billed : Begin(p, m)
    \/ \E p \in Procs : Strays(p)
    \/ \E p \in Procs : Commit(p)
    \/ \E p \in Procs : Rollback(p)
    \/ \E m \in Billed : CalcBalance(m, NoDate, NoDate, NoDate, NoDate)

SpecConcurrent == Init /\ [][NextConcurrent]_vars

\* The schedule generator
NextDues ==
    \E m \in Billed, s \in DueStarts, e \in DueEnds, a \in DueAmounts, i \in FeeIntervals,
       n \in DueNows, f \in DueFroms :
        GetDues(Membership(m, s, e, a, i), n, f)

SpecDues == Init /\ [][NextDues]_vars

(***************************************************************************)
(* Properties of update_liabilites                                         *)
(***************************************************************************)
Ran == last.op = "update_liabilites"
Returned == Ran /\ ~last.raised

\* the active due postings of member m, as (transaction, booking) pairs
Postings(ledger, m) ==
    {r \in BookingRefs(ledger) :
        /\ r[2].member = m /\ r[2].side = "credit" /\ r[2].account = "fees"
        /\ ledger[r[1]].reversed_by = NoTx}

PostingsOf(ledger, m, date, amount) ==
    {r \in Postings(ledger, m) : ledger[r[1]].value_date = date /\ r[2].amount = amount}

\* the (date, amount) pairs the memberships of m ask for
Schedule(m) ==
    UNION {get_dues(ms, now, accounting_start).dues :
              ms \in {x \in memberships : x.member = m /\ x.amount # 0}}

Windows(m) ==
    {get_dues(ms, now, accounting_start).range :
        ms \in {x \in memberships : x.member = m /\ x.amount # 0}}

Covered(date, m) == \E w \in Windows(m) : w[1] <= date /\ date <= w[2]

\* the transactions a step links to a reversal, and the transactions it adds
NewlyReversed == {i \in 1..Len(txs) : txs'[i].reversed_by # txs[i].reversed_by}
Added == (Len(txs) + 1)..Len(txs')
AddedDues(date, amount) ==
    {j \in Added : /\ txs'[j].value_date = date /\ txs'[j].memo = MemoDue
                   /\ \E b \in txs'[j].bookings :
                         b.side = "credit" /\ b.account = "fees" /\ b.amount = amount}

C3_Atomic ==
    [][(last'.op = "update_liabilites" /\ last'.raised) => txs' = txs]_vars

\* a run raised after it had made at least one write
C3_Witness == Ran /\ last.raised /\ last.applied >= 1

\* C4: the ledger only grows; an existing transaction keeps its date, memo
\* and bookings, and the only change to it is that reversed_by goes from
\* null to a transaction added in the same step, a different one for each
\* transaction reversed, as many being added as transactions are reversed.
C4_AppendOnly ==
    [][txs' # txs =>
       /\ Len(txs') >= Len(txs)
       /\ \A i \in 1..Len(txs) :
             /\ txs'[i].value_date = txs[i].value_date
             /\ txs'[i].memo = txs[i].memo
             /\ txs'[i].bookings = txs[i].bookings
             /\ i \in NewlyReversed =>
                   /\ txs[i].reversed_by = NoTx
                   /\ txs'[i].reversed_by \in Added
       /\ \A i, j \in NewlyReversed : i # j => txs'[i].reversed_by # txs'[j].reversed_by
       /\ Cardinality({j \in Added : txs'[j].memo \in {MemoAmountChanged, MemoStray}})
              = Cardinality(NewlyReversed)]_vars

C4_Witness ==
    /\ Returned
    /\ \E i \in 1..Len(txs) : txs[i].reversed_by # NoTx /\ txs[i].memo = MemoDue

\* the membership whose amount the last operation changed, as it is now
Changed == Membership(last.member, last.args[1], last.args[2], last.args[5], last.args[3])

\* the step is the run of update_liabilites that follows a change of amount
RunAfterChange ==
    /\ last.op = "change_amount"
    /\ last'.op = "update_liabilites" /\ ~last'.raised /\ last'.member = last.member

\* the dates d with a due posted at the old amount that are still dates of
\* the changed membership's schedule
StillScheduled ==
    {d \in {p[1] : p \in get_dues(Changed, now, accounting_start).dues} :
        PostingsOf(txs, last.member, d, last.args[4]) # {}}

\* C5 as stated: after a change of amount from a to a', the next run
\* reverses the transaction of the posting (d, a) and no other, and creates
\* exactly one transaction for (d, a').
C5_AsStated ==
    [][RunAfterChange =>
        \A d \in StillScheduled :
            /\ NewlyReversed = {r[1] : r \in PostingsOf(txs, last.member, d, last.args[4])}
            /\ Cardinality(AddedDues(d, last.args[5])) = 1
            /\ PostingsOf(txs', last.member, d, last.args[4]) = {}]_vars

\* C5 amended: when no membership asks for (d, a) any more and (d, a') is
\* not posted yet, the next run reverses the transaction of (d, a), once,
\* reverses besides it only postings that are not scheduled, and creates
\* exactly one transaction for (d, a').
C5_AmountChange ==
    [][RunAfterChange =>
        \A d \in StillScheduled :
            (/\ <<d, last.args[4]>> \notin Schedule(last.member)
             /\ PostingsOf(txs, last.member, d, last.args[5]) = {})
            =>
            /\ \A r \in PostingsOf(txs, last.member, d, last.args[4]) :
                  /\ r[1] \in NewlyReversed
                  /\ Cardinality({k \in 1..Len(last'.writes) :
                         last'.writes[k].kind = "reverse" /\ last'.writes[k].tx = r[1]}) = 1
                  /\ txs'[r[1]].reversed_by # NoTx
            /\ \A i \in NewlyReversed :
                  \E r \in Postings(txs, last.member) :
                      r[1] = i /\ DueKey(txs, r) \notin Schedule(last.member)
            /\ Cardinality(AddedDues(d, last.args[5])) = 1
            /\ PostingsOf(txs', last.member, d, last.args[4]) = {}
            /\ Cardinality(PostingsOf(txs', last.member, d, last.args[5])) = 1]_vars

\* a run has replaced a posting at the old amount by one at the new amount
C5_Witness ==
    /\ Returned
    /\ \E j, k \in 1..Len(last.writes) :
          /\ last.writes[j].kind = "reverse" /\ last.writes[j].memo = MemoAmountChanged
          /\ last.writes[k].kind = "create"
          /\ last.writes[k].date = last.writes[j].date
          /\ last.writes[k].amount # last.writes[j].amount
          /\ Covered(last.writes[j].date, last.member)

\* C6: every reversal of a run is either of a posting inside a membership
\* range that is not scheduled, with the memo of a changed amount, or of a
\* posting outside every membership range, with the memo of a stray.
C6_CauseOfReversal ==
    Returned =>
        \A k \in 1..Len(last.writes) :
            last.writes[k].kind = "reverse" =>
                \/ /\ last.writes[k].memo = MemoAmountChanged
                   /\ Covered(last.writes[k].date, last.member)
                   /\ <<last.writes[k].date, last.writes[k].amount>> \notin Schedule(last.member)
                \/ /\ last.writes[k].memo = MemoStray
                   /\ ~Covered(last.writes[k].date, last.member)

\* the positions in ws of the writes of a kind and memo
WritesOf(ws, kind, memo) ==
    {k \in 1..Len(ws) : ws[k].kind = kind /\ ws[k].memo = memo}

Ascending(ws, ks) ==
    \A j, k \in ks :
        j < k => TupleLess(<<ws[j].date, ws[j].amount>>, <<ws[k].date, ws[k].amount>>)

\* C14: in a run the reversals of wrong dues come first, in ascending
\* (date, amount) order, then the creations, in ascending order, then the
\* reversals of strays; and every run from the same memberships, ledger,
\* now and accounting start issues the same sequence of writes.
C14_SameSequence ==
    [][last'.op = "update_liabilites" =>
          LET ws == last'.writes
              wrong == WritesOf(ws, "reverse", MemoAmountChanged)
              created == WritesOf(ws, "create", MemoDue)
              stray == WritesOf(ws, "reverse", MemoStray)
          IN  /\ \A j \in wrong, k \in created \cup stray : j < k
              /\ \A j \in created, k \in stray : j < k
              /\ Ascending(ws, wrong)
              /\ Ascending(ws, created)
              /\ \A order \in Orders(StraysAfterSteps(txs, memberships, last'.member,
                                                       now, accounting_start)) :
                     update_liabilites(txs, memberships, last'.member, now,
                                       accounting_start, order) = ws]_vars

\* the ledger changes by the whole of one run's writes
WholeRun ==
    \E p \in Procs :
        /\ running[p].phase = "done"
        /\ txs' = ApplyWrites(txs, running[p].member, running[p].writes,
                              Len(running[p].writes))

NoDuplicateDue ==
    \A m \in Members : \A r1, r2 \in Postings(txs, m) :
        DueKey(txs, r1) = DueKey(txs, r2) => r1 = r2

\* C15: whatever the interleaving of two runs for a member and of balance
\* reads, the ledger the others see changes only by the whole of a run's
\* writes, and no (date, amount) ever has two active due postings.
C15_Isolation == [][txs' # txs => WholeRun]_vars /\ []NoDuplicateDue

\* C16: a run for one member reverses no transaction that carries a booking
\* of another member and adds no booking of another member, so the other
\* member's active due postings and balance are as they were.
C16_CrossMemberFrame ==
    [][last'.op = "update_liabilites" =>
          \A b \in Members \ {last'.member} :
              /\ \A i \in NewlyReversed : \A k \in txs[i].bookings : k.member # b
              /\ \A j \in Added : \A k \in txs'[j].bookings : k.member # b
              /\ Postings(txs', b) = Postings(txs, b)
              /\ calc_balance(txs', b, now, NoDate, NoDate, NoDate, NoDate)
                     = calc_balance(txs, b, now, NoDate, NoDate, NoDate, NoDate)]_vars

\* a membership with the start after the end, or with a negative amount
Inconsistent(ms) == ms.amount < 0 \/ (ms.end # NoDate /\ ms.start > ms.end)

\* C11: a run creates no posting from a membership with start > end or with
\* a negative amount, and every due of the member's other memberships has
\* its one active posting after the run.
C11_RefusesInconsistent ==
    Returned =>
        /\ \A k \in 1..Len(last.writes) :
               last.writes[k].kind = "create" =>
                   \E ms \in memberships :
                       /\ ms.member = last.member /\ ~Inconsistent(ms)
                       /\ <<last.writes[k].date, last.writes[k].amount>>
                              \in get_dues(ms, now, accounting_start).dues
        /\ \A ms \in memberships :
               (ms.member = last.member /\ ~Inconsistent(ms) /\ ms.amount # 0) =>
                   \A p \in get_dues(ms, now, accounting_start).dues :
                       Cardinality(PostingsOf(txs, last.member, p[1], p[2])) = 1

\* the ranges of the zero-amount memberships of member m
ZeroWindows(m) ==
    {get_dues(ms, now, accounting_start).range :
        ms \in {x \in memberships : x.member = m /\ x.amount = 0}}

InZeroWindow(date, m) == \E w \in ZeroWindows(m) : w[1] <= date /\ date <= w[2]

\* C17: a membership with amount 0 gives neither dues nor a range: no
\* transaction is created for it, and a posting dated inside its window and
\* inside no range of a nonzero membership is reversed as a stray.
C17_ZeroAmount ==
    Returned =>
        /\ \A k \in 1..Len(last.writes) :
               last.writes[k].kind = "create" => last.writes[k].amount # 0
        /\ \A r \in Postings(txs, last.member) :
               (accounting_start = NoDate \/ txs[r[1]].value_date >= accounting_start)
                   => ~(/\ InZeroWindow(txs[r[1]].value_date, last.member)
                        /\ ~Covered(txs[r[1]].value_date, last.member))
        /\ \A k \in 1..Len(last.writes) :
               (/\ last.writes[k].kind = "reverse"
                /\ InZeroWindow(last.writes[k].date, last.member)
                /\ ~Covered(last.writes[k].date, last.member))
               => last.writes[k].memo = MemoStray

\* the active due postings of every member dated before the accounting start
BeforeStart(ledger) ==
    {r \in BookingRefs(ledger) :
        /\ r[2].side = "credit" /\ r[2].account = "fees"
        /\ ledger[r[1]].reversed_by = NoTx
        /\ ledger[r[1]].value_date < accounting_start}

\* C18: with the accounting start set, a run reverses no transaction dated
\* before it, adds no transaction dated before it, and leaves the active
\* postings dated before it as they were.
C18_AccountingStartFrame ==
    [][(last'.op = "update_liabilites" /\ accounting_start # NoDate) =>
          /\ \A i \in NewlyReversed : txs[i].value_date >= accounting_start
          /\ \A j \in Added : txs'[j].value_date >= accounting_start
          /\ BeforeStart(txs') = BeforeStart(txs)]_vars

\* a run wrote while a posting that is not scheduled lay before the
\* accounting start
C18_Witness ==
    /\ Returned
    /\ accounting_start # NoDate
    /\ last.writes # <<>>
    /\ \E r \in Postings(txs, last.member) :
          /\ txs[r[1]].value_date < accounting_start
          /\ DueKey(txs, r) \notin Schedule(last.member)

(***************************************************************************)
(* Properties of the balance, the snapshots and the statute-barred debt    *)
(***************************************************************************)
RECURSIVE SumOfBookings(_)
SumOfBookings(bs) ==
    IF bs = {} THEN 0
    ELSE LET b == CHOOSE x \in bs : TRUE IN b.amount + SumOfBookings(bs \ {b})

\* the sum, over the first k transactions dated up to T (the active ones
\* only when activeOnly), of member m's fees-receivable bookings on `side`
RECURSIVE LedgerSum(_, _, _, _, _)
LedgerSum(k, m, side, T, activeOnly) ==
    IF k = 0 THEN 0
    ELSE LedgerSum(k - 1, m, side, T, activeOnly)
         + (IF txs[k].value_date <= T /\ (activeOnly => txs[k].reversed_by = NoTx)
            THEN SumOfBookings({b \in txs[k].bookings :
                     b.member = m /\ b.side = side /\ b.account = "fees_receivable"})
            ELSE 0)

\* the last operation was balance(member, cutoff = T)
BalanceAt ==
    /\ last.op = "calc_balance"
    /\ last.args[1] = last.args[2] /\ last.args[3] = NoDate /\ last.args[4] = NoDate

CutoffT == IF last.args[1] = NoDate THEN now ELSE last.args[1]

\* C7 as stated: the balance at T is credits minus debits up to T over the
\* bookings of active transactions only.
C7_AsStated ==
    BalanceAt =>
        last.result = LedgerSum(Len(txs), last.member, "credit", CutoffT, TRUE)
                      - LedgerSum(Len(txs), last.member, "debit", CutoffT, TRUE)

\* C7 amended: the balance at T is credits minus debits up to T over all
\* the member's bookings, those of reversed transactions included; it is
\* zero when there is none.
C7_BalanceOverAllBookings ==
    BalanceAt =>
        /\ last.result = LedgerSum(Len(txs), last.member, "credit", CutoffT, FALSE)
                         - LedgerSum(Len(txs), last.member, "debit", CutoffT, FALSE)
        /\ (\A i \in 1..Len(txs) : \A b \in txs[i].bookings :
               ~(b.member = last.member /\ b.account = "fees_receivable"
                 /\ txs[i].value_date <= CutoffT))
           => last.result = 0

\* the balance was taken at a cutoff that a reversed due of the member lies
\* before
C7_Witness ==
    /\ BalanceAt
    /\ \E i \in 1..Len(txs) :
          /\ txs[i].reversed_by # NoTx /\ txs[i].value_date <= CutoffT
          /\ \E b \in txs[i].bookings :
                b.member = last.member /\ b.account = "fees_receivable" /\ b.side = "debit"

\* C8: no two snapshots of a member overlap.
C8_NoOverlap ==
    \A b1, b2 \in balances :
        (b1 # b2 /\ b1.member = b2.member) => (b1.end < b2.start \/ b2.end < b1.start)

Dec31 == MkDate(Year(now), 12, 31)

\* C9 as stated: the cutoff is Dec 31 minus the liability interval minus
\* one year minus the future limit.
C9_AsStated ==
    last.op = "statute_barred_debt" =>
        last.args[3] = AddMonths(AddYears(AddMonths(Dec31, -last.args[1]), -1), -last.args[2])

\* C9 amended: the cutoff is Dec 31 moved back by the liability interval
\* less the future limit, in months, and then by one year; a larger future
\* limit never moves it to an earlier date.
C9_Cutoff ==
    last.op = "statute_barred_debt" =>
        LET total == Year(now) * 12 + 11 - last.args[1] + last.args[2]
            y == total \div 12
            mo == (total % 12) + 1
            day == Min(Min(31, DaysInMonth(y, mo)), DaysInMonth(y - 1, mo))
        IN  /\ last.args[3] = MkDate(y - 1, mo, day)
            /\ \A fl \in FutureLimits :
                  fl >= last.args[2] =>
                      LastUnenforceableDate(now, last.args[1], fl) >= last.args[3]

\* a future limit moved the cutoff past the end of the year before
C9_Witness ==
    /\ last.op = "statute_barred_debt"
    /\ last.args[2] > 0
    /\ last.args[3] > LastUnenforceableDate(now, last.args[1], 0)

\* the balance with the liabilities up to the cutoff and the assets up to now
BalanceAtCutoff ==
    LedgerSum(Len(txs), last.member, "credit", now, FALSE)
        - LedgerSum(Len(txs), last.member, "debit", last.args[3], FALSE)

\* C10: the statute-barred debt is never negative, is zero when the balance
\* at the cutoff is not negative, and is the magnitude of that balance
\* otherwise.
C10_DebtValue ==
    last.op = "statute_barred_debt" =>
        /\ last.result >= 0
        /\ BalanceAtCutoff >= 0 => last.result = 0
        /\ BalanceAtCutoff < 0 => last.result = -BalanceAtCutoff

\* a debt was found
C10_Witness ==
    /\ last.op = "statute_barred_debt"
    /\ BalanceAtCutoff < 0
    /\ last.result > 0

(***************************************************************************)
(* Properties of Membership.get_dues                                       *)
(***************************************************************************)
Called == last.op = "get_dues"

\* what the call was given, and what it returned
ArgStart == last.args[1]
ArgEnd == last.args[2]
ArgAmount == last.args[3]
ArgInterval == last.args[4]
ArgNow == last.args[5]
ArgFrom == last.args[6]
ResultStart == last.result.range[1]
ResultEnd == last.result.range[2]
ResultDates == {p[1] : p \in last.result.dues}

\* range_start as the claims define it
ClaimedRangeStart ==
    IF ArgFrom # NoDate /\ ArgFrom > ArgStart THEN ArgFrom ELSE ArgStart

\* the whole months from date a to date b, none when b is before a
MonthsApart(a, b) ==
    Max(0, (Year(b) * 12 + Month(b)) - (Year(a) * 12 + Month(a)))

\* d moved forward k times by i months, one step after the other
RECURSIVE Stepped(_, _, _)
Stepped(d, i, k) == IF k = 0 THEN d ELSE AddMonths(Stepped(d, i, k - 1), i)

\* C12: range_end is membership.end when it is set; otherwise it is the day
\* of membership.start in the month of now, or the last day of that month
\* when the month has no such day.
C12_ImplicitEnd ==
    Called =>
        ResultEnd =
            IF ArgEnd # NoDate THEN ArgEnd
            ELSE IF Day(ArgStart) <= DaysInMonth(Year(ArgNow), Month(ArgNow))
                 THEN MkDate(Year(ArgNow), Month(ArgNow), Day(ArgStart))
                 ELSE MkDate(Year(ArgNow), Month(ArgNow),
                             DaysInMonth(Year(ArgNow), Month(ArgNow)))

\* C13: the dues are exactly the pairs (date, amount) for the dates reached
\* from range_start by steps of `interval` months that are not after
\* range_end; range_start is max(start, from); no date is emitted twice and
\* none after range_end.
C13_DueSet ==
    Called =>
        /\ ResultStart = ClaimedRangeStart
        /\ last.result.dues =
               {<<Stepped(ClaimedRangeStart, ArgInterval, k), ArgAmount>> :
                   k \in {j \in 0..MonthsApart(ClaimedRangeStart, ResultEnd) :
                             Stepped(ClaimedRangeStart, ArgInterval, j) <= ResultEnd}}
        /\ Cardinality(ResultDates) = Cardinality(last.result.dues)
        /\ \A d \in ResultDates : d <= ResultEnd
        /\ ClaimedRangeStart <= ResultEnd => ClaimedRangeStart \in ResultDates

\* start 2023-01-01, no end, amount 30, interval 3, now 2023-08-01
C13_Witness ==
    /\ Called
    /\ last.args = <<20230101, NoDate, 30, 3, 20230801, NoDate>>
    /\ last.result.dues = {<<20230101, 30>>, <<20230401, 30>>, <<20230701, 30>>}

\* C19: the k-th due date is range_start moved by k * interval months, the
\* day clamped to the month reached, so that a short month on the way does
\* not shift the later dates.
C19_DayStable ==
    Called =>
        ResultDates =
            {d \in {AddMonths(ResultStart, k * ArgInterval) :
                       k \in 0..MonthsApart(ResultStart, ResultEnd)} : d <= ResultEnd}

====
